---- MODULE Spec2Model ----
(***************************************************************************)
(* Model of gpucontext.Registry[T] (registry.go): a table of named         *)
(* factories guarded by a sync.RWMutex, with priority-ordered selection.   *)
(*                                                                         *)
(* Two specifications share the state and the operation bodies:            *)
(*   Spec      one caller; every action is one whole registry operation    *)
(*             (lock, body, deferred unlock).                              *)
(*   SpecConc  several threads; every operation is split at its lock and   *)
(*             unlock calls, and the map assignment of a writer into its   *)
(*             read and its write of the shared map.                       *)
(***************************************************************************)
EXTENDS Integers, Sequences, FiniteSets, TLC

VARIABLES
    factories,  \* Registry.factories: the map name -> factory
    priority,   \* Registry.priority
    last,       \* Spec: the last operation of the caller, its result and the factories it invoked
    pre,        \* Spec: factories before the last operation
    lastMut,    \* history: per name, the most recent completed mutation
    repl,       \* history: the most recent Register that replaced another factory, while in force
    scen,       \* history: how many steps of the backend scenario the last operations match
    scenRet,    \* history: what BestName returned during those steps
    mu,         \* Registry.mu: who holds it for writing, who for reading, which writers wait
    pc,         \* SpecConc: where each thread is in its call
    call,       \* SpecConc: the call each thread is in
    ret,        \* SpecConc: the value the thread's call is about to return
    snap,       \* SpecConc: the map a writer read and is about to write back
    regNames,   \* history: the names of the Register calls that have returned (kept until an Unregister call)
    unregCalled,\* history: some thread has called Unregister
    raced,      \* history: two Register calls on distinct names have overlapped (kept until an Unregister call)
    counted,    \* history: the result of the observer's last call when that was Count
    dirty,      \* history: a map write took effect since that Count
    outer,      \* SpecFac: the call whose factory is running while the thread is in a nested call
    check,      \* history: what the observer's previous call found registered, and whether
                \* an Unregister has removed it since
    visible     \* history: the names the observer's read asks about whose Register had returned
                \* when the read started, less those a Register or Unregister has written since

seqVars == <<last, pre, repl, scen, scenRet>>
concVars == <<mu, pc, call, ret, snap, regNames, unregCalled, raced, counted, dirty, visible,
              outer, check>>
vars == <<factories, priority, lastMut, seqVars, concVars>>

(***************************************************************************)
(* Bounds and input sets                                                   *)
(***************************************************************************)
\* number of distinct factories callers register
NumFactories == 2
\* longest priority list enumerated over PrioNames
MaxPrioLen == 2
\* most options passed to NewRegistry
MaxOpts == 1
\* number of threads calling into the registry
NumThreads == 2

\* the zero value of T (var zero T)
Zero == 0

\* factory k is  func() T { return k-1 }  ; factory 1 returns T's zero value
FactoryIds == 1..NumFactories
Output(f) == f - 1
\* the nil func value: Register stores it like any other factory value
NilFactory == 0

\* the names callers pass to Register, Unregister, Get and Has
CallNames == {"vulkan", "software", ""}
\* the priority list of the package documentation
BackendPriority == <<"vulkan", "dx12", "metal", "gles", "software">>
PrioNames == {"vulkan", "metal", "software"}

\* SpecConc: the names and priority lists the threads use
ConcNames == {"vulkan", "software"}
ConcPriorities == {<<>>, <<"vulkan", "software">>}
\* SpecConc: the factory the threads register; its output is not the zero value
ConcFactories == {NumFactories}
Threads == 1..NumThreads
\* the thread whose Count/Available pair is watched
Observer == CHOOSE t \in Threads : \A u \in Threads : t <= u

SeqsUpTo(S, n) == UNION {[1..k -> S] : k \in 0..n}
PriorityLists == {BackendPriority} \cup SeqsUpTo(PrioNames, MaxPrioLen)

(***************************************************************************)
(* Construction                                                            *)
(***************************************************************************)
\* WithPriority(names...): the option stores names in the configuration
WithPriority(names, cfg) == [cfg EXCEPT !.priority = names]

RECURSIVE ApplyOpts(_, _)
ApplyOpts(opts, cfg) ==
    IF opts = <<>> THEN cfg
    ELSE ApplyOpts(Tail(opts), WithPriority(Head(opts), cfg))

\* NewRegistry(opts...): an empty map and the configured priority (nil without option)
NewRegistry(opts) ==
    LET cfg == ApplyOpts(opts, [priority |-> <<>>])
    IN  [factories |-> [n \in {} |-> 0], priority |-> cfg.priority]

(***************************************************************************)
(* Operation bodies: what each method does between lock and unlock         *)
(***************************************************************************)
\* mutant: an existing entry is kept (first write wins)
RegisterKeepsFirst(m, name, factory) ==
    [n \in (DOMAIN m) \cup {name} |-> IF n \in DOMAIN m THEN m[n] ELSE factory]

\* mutant: every entry is bound to the new factory
RegisterRebindsAll(m, name, factory) ==
    [n \in (DOMAIN m) \cup {name} |-> factory]

\* r.factories[name] = factory
RegisterBody(m, name, factory) ==
    [n \in (DOMAIN m) \cup {name} |-> IF n = name THEN factory ELSE m[n]]

\* mutant: the entry is not deleted
UnregisterKeeps(m, name) == m

\* mutant: the map is replaced by an empty one
UnregisterClears(m, name) == [n \in {} |-> 0]

\* delete(r.factories, name)
UnregisterBody(m, name) ==
    [n \in (DOMAIN m) \ {name} |-> m[n]]

\* mutant: the factory is called twice
InvokeTwice(f) == [ret |-> Output(f), invoked |-> <<f, f>>]

\* return factory() ; calling a nil func panics: the call is made, nothing is returned
Invoke(f) ==
    IF f = NilFactory THEN [ret |-> Zero, invoked |-> <<NilFactory>>]
    ELSE [ret |-> Output(f), invoked |-> <<f>>]

\* the operation ended in a run-time panic (call of a nil func) instead of returning
Panicked(r) == \E i \in 1..Len(r.invoked) : r.invoked[i] = NilFactory

\* mutant: the factory found is not invoked
GetNoInvoke(m, name) == [ret |-> Zero, invoked |-> <<>>]

GetBody(m, name) ==
    IF name \in DOMAIN m
    THEN Invoke(m[name])
    ELSE [ret |-> Zero, invoked |-> <<>>]

\* mutant: the lookup ignores the name
HasAny(m, name) == [ret |-> DOMAIN m # {}, invoked |-> <<>>]

HasBody(m, name) == [ret |-> name \in DOMAIN m, invoked |-> <<>>]

\* mutants: the loop does not return at the first hit and ends on the last one
BestScanLast(m, prio, i) ==
    LET hits == {j \in i..Len(prio) : prio[j] \in DOMAIN m}
    IN  IF hits = {} THEN 0 ELSE CHOOSE j \in hits : \A k \in hits : k <= j
BestNameScanLast(m, prio, i) ==
    LET hits == {j \in i..Len(prio) : prio[j] \in DOMAIN m}
    IN  IF hits = {} THEN 0 ELSE CHOOSE j \in hits : \A k \in hits : k <= j

\* for _, name := range r.priority { if factory, ok := r.factories[name]; ok {...} }
\* the index of the first listed name that is registered, 0 when the loop ends
RECURSIVE BestScan(_, _, _)
BestScan(m, prio, i) ==
    IF i > Len(prio) THEN 0
    ELSE IF prio[i] \in DOMAIN m THEN i
    ELSE BestScan(m, prio, i + 1)

\* mutant: the range over the map after the priority loop is missing
BestNoFallback(m, prio) ==
    LET i == BestScan(m, prio, 1)
    IN  IF i # 0 THEN {Invoke(m[prio[i]])}
        ELSE {[ret |-> Zero, invoked |-> <<>>]}

\* the outcomes of Best: the range over the map may start at any entry
BestBody(m, prio) ==
    LET i == BestScan(m, prio, 1)
    IN  IF i # 0 THEN {Invoke(m[prio[i]])}
        ELSE IF DOMAIN m # {} THEN {Invoke(m[n]) : n \in DOMAIN m}
        ELSE {[ret |-> Zero, invoked |-> <<>>]}

RECURSIVE BestNameScan(_, _, _)
BestNameScan(m, prio, i) ==
    IF i > Len(prio) THEN 0
    ELSE IF prio[i] \in DOMAIN m THEN i
    ELSE BestNameScan(m, prio, i + 1)

\* mutant: with nothing registered the first listed name is returned
BestNameDefaultsToListed(m, prio) ==
    LET i == BestNameScan(m, prio, 1)
    IN  IF i # 0 THEN {[ret |-> prio[i], invoked |-> <<>>]}
        ELSE IF DOMAIN m # {} THEN {[ret |-> n, invoked |-> <<>>] : n \in DOMAIN m}
        ELSE {[ret |-> IF Len(prio) > 0 THEN prio[1] ELSE "", invoked |-> <<>>]}

\* mutant: the range over the map after the priority loop is missing
BestNameNoFallback(m, prio) ==
    LET i == BestNameScan(m, prio, 1)
    IN  IF i # 0 THEN {[ret |-> prio[i], invoked |-> <<>>]}
        ELSE {[ret |-> "", invoked |-> <<>>]}

BestNameBody(m, prio) ==
    LET i == BestNameScan(m, prio, 1)
    IN  IF i # 0 THEN {[ret |-> prio[i], invoked |-> <<>>]}
        ELSE IF DOMAIN m # {} THEN {[ret |-> n, invoked |-> <<>>] : n \in DOMAIN m}
        ELSE {[ret |-> "", invoked |-> <<>>]}

\* the orders in which a range over the keys of m may visit them
KeyOrders(m) ==
    {s \in [1..Cardinality(DOMAIN m) -> DOMAIN m] :
        \A i, j \in DOMAIN s : i # j => s[i] # s[j]}

\* mutant: make([]string, len(r.factories)) in place of make([]string, 0, len(r.factories))
AvailablePadded(m) ==
    {[ret |-> [i \in 1..Cardinality(DOMAIN m) |-> ""] \o s, invoked |-> <<>>] : s \in KeyOrders(m)}

\* mutant: the first key visited is not appended
AvailableSkipsFirst(m) ==
    {[ret |-> IF s = <<>> THEN s ELSE Tail(s), invoked |-> <<>>] : s \in KeyOrders(m)}

AvailableBody(m) == {[ret |-> s, invoked |-> <<>>] : s \in KeyOrders(m)}

CountBody(m) == [ret |-> Cardinality(DOMAIN m), invoked |-> <<>>]

(***************************************************************************)
(* History variables                                                       *)
(***************************************************************************)
NeverMut == [kind |-> "never", fac |-> 0]
UnregMut == [kind |-> "unregister", fac |-> 0]
RegMut(f) == [kind |-> "register", fac |-> f]

\* the scenario of the package documentation; a Register step accepts any factory
Scenario == <<
    [op |-> "Register", name |-> "software"],
    [op |-> "Register", name |-> "vulkan"],
    [op |-> "BestName", name |-> ""],
    [op |-> "Unregister", name |-> "vulkan"],
    [op |-> "BestName", name |-> ""],
    [op |-> "Unregister", name |-> "software"],
    [op |-> "BestName", name |-> ""] >>

\* the scenario starts on an empty registry with the documented priority
ScenStart(op, name) ==
    /\ priority = BackendPriority
    /\ DOMAIN factories = {}
    /\ Scenario[1] = [op |-> op, name |-> name]

Observe(op, name, r) ==
    LET step == [op |-> op, name |-> name]
        next == scen < Len(Scenario) /\ scen > 0 /\ Scenario[scen + 1] = step
    IN  /\ scen' = IF next THEN scen + 1
                   ELSE IF ScenStart(op, name) THEN 1 ELSE 0
        /\ scenRet' = IF next
                      THEN (IF op = "BestName" THEN Append(scenRet, r) ELSE scenRet)
                      ELSE <<>>

Record(op, name, f, r) ==
    /\ last' = [op |-> op, name |-> name, fac |-> f, ret |-> r.ret, invoked |-> r.invoked]
    /\ pre' = factories
    /\ Observe(op, name, r.ret)
    /\ UNCHANGED concVars

NoResult == [ret |-> 0, invoked |-> <<>>]
NoCall == [op |-> "none", name |-> "", fac |-> 0]
NoFrame == [call |-> NoCall, ret |-> NoResult]
NoCheck == [names |-> {}, gone |-> FALSE]

(***************************************************************************)
(* Spec: one caller, whole operations                                      *)
(***************************************************************************)
Init ==
    /\ \E opts \in SeqsUpTo(PriorityLists, MaxOpts) :
          /\ factories = NewRegistry(opts).factories
          /\ priority = NewRegistry(opts).priority
    /\ last = [op |-> "New", name |-> "", fac |-> 0, ret |-> 0, invoked |-> <<>>]
    /\ pre = factories
    /\ lastMut = [n \in CallNames |-> NeverMut]
    /\ repl = {}
    /\ scen = 0
    /\ scenRet = <<>>
    /\ mu = [w |-> {}, r |-> {}, waiting |-> {}]
    /\ pc = [t \in Threads |-> "idle"]
    /\ call = [t \in Threads |-> NoCall]
    /\ ret = [t \in Threads |-> NoResult]
    /\ snap = [t \in Threads |-> <<>>]
    /\ regNames = {}
    /\ unregCalled = FALSE
    /\ raced = FALSE
    /\ counted = {}
    /\ dirty = FALSE
    /\ visible = {}
    /\ outer = [t \in Threads |-> NoFrame]
    /\ check = NoCheck

Register(name, factory) ==
    /\ factories' = RegisterBody(factories, name, factory)
    /\ lastMut' = [lastMut EXCEPT ![name] = RegMut(factory)]
    /\ repl' = IF lastMut[name].kind = "register" /\ lastMut[name].fac # factory
               THEN {[name |-> name, old |-> lastMut[name].fac]}
               ELSE {x \in repl : x.name # name}
    /\ Record("Register", name, factory, NoResult)
    /\ UNCHANGED priority

Unregister(name) ==
    /\ factories' = UnregisterBody(factories, name)
    /\ lastMut' = [lastMut EXCEPT ![name] = UnregMut]
    /\ repl' = {x \in repl : x.name # name}
    /\ Record("Unregister", name, 0, NoResult)
    /\ UNCHANGED priority

Get(name) ==
    /\ Record("Get", name, 0, GetBody(factories, name))
    /\ UNCHANGED <<factories, priority, lastMut, repl>>

Has(name) ==
    /\ Record("Has", name, 0, HasBody(factories, name))
    /\ UNCHANGED <<factories, priority, lastMut, repl>>

Best ==
    /\ \E r \in BestBody(factories, priority) : Record("Best", "", 0, r)
    /\ UNCHANGED <<factories, priority, lastMut, repl>>

BestName ==
    /\ \E r \in BestNameBody(factories, priority) : Record("BestName", "", 0, r)
    /\ UNCHANGED <<factories, priority, lastMut, repl>>

Available ==
    /\ \E r \in AvailableBody(factories) : Record("Available", "", 0, r)
    /\ UNCHANGED <<factories, priority, lastMut, repl>>

Count ==
    /\ Record("Count", "", 0, CountBody(factories))
    /\ UNCHANGED <<factories, priority, lastMut, repl>>

DoRegister == \E name \in CallNames, f \in FactoryIds : Register(name, f)
DoUnregister == \E name \in CallNames : Unregister(name)
DoGet == \E name \in CallNames : Get(name)
DoHas == \E name \in CallNames : Has(name)

Next ==
    \/ DoRegister
    \/ DoUnregister
    \/ DoGet
    \/ DoHas
    \/ Best
    \/ BestName
    \/ Available
    \/ Count

Spec == Init /\ [][Next]_vars

(***************************************************************************)
(* SpecNil: Spec with callers that also pass a nil factory to Register     *)
(***************************************************************************)
InitNil == Init /\ priority \in ConcPriorities

DoRegisterNil == \E name \in CallNames : Register(name, NilFactory)

NextNil ==
    \/ Next
    \/ DoRegisterNil

SpecNil == InitNil /\ [][NextNil]_vars

(***************************************************************************)
(* SpecAlias: Spec with a caller that built the registry with              *)
(* WithPriority(s...) and still holds the slice s                          *)
(***************************************************************************)
\* c.priority = names: names is the caller's slice, no copy is made, so
\* r.priority and s share their backing array
InitAlias == Init /\ priority \in ConcPriorities /\ Len(priority) > 0

\* s[i] = n in the caller
CallerModifiesSlice ==
    /\ \E i \in 1..Len(priority), n \in PrioNames :
          /\ n # priority[i]
          /\ priority' = [priority EXCEPT ![i] = n]
    /\ UNCHANGED <<factories, lastMut, seqVars, concVars>>

NextAlias ==
    \/ Next
    \/ CallerModifiesSlice

SpecAlias == InitAlias /\ [][NextAlias]_vars

(***************************************************************************)
(* SpecConc: threads; operations split at Lock/Unlock and RLock/RUnlock    *)
(***************************************************************************)
WriteOps == {"Register", "Unregister"}
ReadOps == {"Get", "Has", "Best", "BestName", "Available", "Count"}

\* mutant: Register and Unregister do not wait for the mutex
CanLockAlways(m) == TRUE

\* mutant: Lock does not wait for the readers to leave
CanLockOverReaders(m) == m.w = {}

\* mutant: Lock waits for the readers to leave, not for another writer
CanLockOverWriter(m) == m.r = {}

\* mutant: RLock is exclusive, as Lock is
CanRLockAlone(m) == m.w = {} /\ m.waiting = {} /\ m.r = {}

\* mutant: RLock does not wait behind a writer that waits for the mutex
CanRLockOverWaiting(m) == m.w = {}

\* mutant: the read operations do not wait for the mutex
CanRLockAlways(m) == TRUE

\* sync.RWMutex: Lock waits until no reader and no writer holds the mutex;
\* RLock waits while a writer holds it or waits for it
CanLock(m) == m.w = {} /\ m.r = {}
CanRLock(m) == m.w = {} /\ m.waiting = {}

\* the observer's watch ends when it calls anything but Available after Count
Unwatch(t, op) ==
    IF t = Observer /\ op # "Available"
    THEN counted' = {} /\ dirty' = FALSE
    ELSE UNCHANGED <<counted, dirty>>

\* a thread calls Register or Unregister and reaches r.mu.Lock()
CallWrite(t, op, name, f) ==
    /\ pc[t] = "idle"
    /\ pc' = [pc EXCEPT ![t] = "lock"]
    /\ call' = [call EXCEPT ![t] = [op |-> op, name |-> name, fac |-> f]]
    /\ mu' = [mu EXCEPT !.waiting = @ \cup {t}]
    /\ unregCalled' = (unregCalled \/ op = "Unregister")
    /\ regNames' = IF unregCalled' THEN {} ELSE regNames
    /\ raced' = /\ ~unregCalled'
                /\ \/ raced
                   \/ \E u \in Threads \ {t} : call[u].op = "Register" /\ call[u].name # name
    /\ Unwatch(t, op)
    /\ UNCHANGED <<factories, priority, lastMut, seqVars, ret, snap, visible, outer, check>>

\* r.mu.Lock() returns
WLock(t) ==
    /\ pc[t] = "lock"
    /\ CanLock(mu)
    /\ mu' = [mu EXCEPT !.w = @ \cup {t}, !.waiting = @ \ {t}]
    /\ pc' = [pc EXCEPT ![t] = "load"]
    /\ UNCHANGED <<factories, priority, lastMut, seqVars, call, ret, snap,
                   regNames, unregCalled, raced, counted, dirty, visible, outer, check>>

\* the map assignment or delete reads the map ...
Load(t) ==
    /\ pc[t] = "load"
    /\ pc' = [pc EXCEPT ![t] = "store"]
    /\ snap' = [snap EXCEPT ![t] = factories]
    /\ UNCHANGED <<factories, priority, lastMut, seqVars, mu, call, ret,
                   regNames, unregCalled, raced, counted, dirty, visible, outer, check>>

WriteBody(c, m) ==
    IF c.op = "Register" THEN RegisterBody(m, c.name, c.fac)
    ELSE UnregisterBody(m, c.name)

\* ... and writes it back with the entry set or removed
Store(t) ==
    /\ pc[t] = "store"
    /\ pc' = [pc EXCEPT ![t] = "unlock"]
    /\ factories' = WriteBody(call[t], snap[t])
    /\ lastMut' = [lastMut EXCEPT ![call[t].name] =
                      IF call[t].op = "Register" THEN RegMut(call[t].fac) ELSE UnregMut]
    /\ snap' = [snap EXCEPT ![t] = <<>>]
    /\ dirty' = (counted # {})
    /\ visible' = visible \ {call[t].name}
    /\ check' = IF call[t].op = "Unregister" /\ call[t].name \in check.names
                THEN [check EXCEPT !.gone = TRUE]
                ELSE check
    /\ UNCHANGED <<priority, seqVars, mu, call, ret, regNames, unregCalled, raced, counted,
                   outer>>

\* the deferred r.mu.Unlock() runs and the call returns
WUnlock(t) ==
    /\ pc[t] = "unlock"
    /\ mu' = [mu EXCEPT !.w = @ \ {t}]
    /\ regNames' = IF call[t].op = "Register" /\ ~unregCalled
                   THEN regNames \cup {call[t].name}
                   ELSE regNames
    /\ pc' = [pc EXCEPT ![t] = "idle"]
    /\ call' = [call EXCEPT ![t] = NoCall]
    /\ UNCHANGED <<factories, priority, lastMut, seqVars, ret, snap,
                   unregCalled, raced, counted, dirty, visible, outer, check>>

\* the names registered by a Register call that has returned
ReturnedInForce ==
    {n \in ConcNames :
        /\ lastMut[n].kind = "register"
        /\ \A u \in Threads : ~(pc[u] = "unlock" /\ call[u].name = n)}

\* a thread calls a read operation and reaches r.mu.RLock()
CallRead(t, op, name) ==
    /\ pc[t] = "idle"
    /\ pc' = [pc EXCEPT ![t] = "rlock"]
    /\ call' = [call EXCEPT ![t] = [op |-> op, name |-> name, fac |-> 0]]
    /\ Unwatch(t, op)
    /\ visible' = IF t = Observer /\ op \in {"Get", "Has"} THEN ReturnedInForce \cap {name}
                  ELSE IF t = Observer /\ op = "Best" THEN ReturnedInForce
                  ELSE visible
    /\ UNCHANGED <<factories, priority, lastMut, seqVars, mu, ret, snap,
                   regNames, unregCalled, raced, outer, check>>

\* r.mu.RLock() returns
RLock(t) ==
    /\ pc[t] = "rlock"
    /\ CanRLock(mu)
    /\ mu' = [mu EXCEPT !.r = @ \cup {t}]
    /\ pc' = [pc EXCEPT ![t] = "read"]
    /\ UNCHANGED <<factories, priority, lastMut, seqVars, call, ret, snap,
                   regNames, unregCalled, raced, counted, dirty, visible, outer, check>>

\* what a read of the map can see: the map itself, or, while another thread is in
\* the middle of a map assignment or delete (a data race), any part of the map
\* before or after that update
TornViews(m, c) ==
    UNION {{[n \in S |-> x[n]] : S \in SUBSET DOMAIN x} : x \in {m, WriteBody(c, m)}}

Views(t) ==
    LET writing == {u \in Threads \ {t} : pc[u] = "store"}
    IN  IF writing = {} THEN {factories}
        ELSE UNION {TornViews(factories, call[u]) : u \in writing}

ReadBody(c, m, prio) ==
    CASE c.op = "Get" -> {GetBody(m, c.name)}
      [] c.op = "Has" -> {HasBody(m, c.name)}
      [] c.op = "Best" -> BestBody(m, prio)
      [] c.op = "BestName" -> BestNameBody(m, prio)
      [] c.op = "Available" -> AvailableBody(m)
      [] c.op = "Count" -> {CountBody(m)}

\* the body of the read operation computes the value to return
Read(t) ==
    /\ pc[t] = "read"
    /\ \E m \in Views(t) : \E r \in ReadBody(call[t], m, priority) :
          /\ ret' = [ret EXCEPT ![t] = r]
          /\ IF t = Observer /\ call[t].op = "Count"
             THEN counted' = {r.ret} /\ dirty' = FALSE
             ELSE UNCHANGED <<counted, dirty>>
    /\ pc' = [pc EXCEPT ![t] = "runlock"]
    /\ UNCHANGED <<factories, priority, lastMut, seqVars, mu, call, snap,
                   regNames, unregCalled, raced, visible, outer, check>>

\* the deferred r.mu.RUnlock() runs and the call returns
RUnlock(t) ==
    /\ pc[t] = "runlock"
    /\ mu' = [mu EXCEPT !.r = @ \ {t}]
    /\ pc' = [pc EXCEPT ![t] = "idle"]
    /\ IF t = Observer /\ call[t].op = "Available"
       THEN counted' = {} /\ dirty' = FALSE
       ELSE UNCHANGED <<counted, dirty>>
    /\ call' = [call EXCEPT ![t] = NoCall]
    /\ ret' = [ret EXCEPT ![t] = NoResult]
    /\ visible' = IF t = Observer THEN {} ELSE visible
    /\ UNCHANGED <<factories, priority, lastMut, seqVars, snap,
                   regNames, unregCalled, raced, outer, check>>

InitConc == Init /\ priority \in ConcPriorities

ThreadCallsWrite ==
    \E t \in Threads, name \in ConcNames :
        \/ \E f \in ConcFactories : CallWrite(t, "Register", name, f)
        \/ CallWrite(t, "Unregister", name, 0)
ThreadCallsRead ==
    \E t \in Threads :
        \/ \E op \in {"Get", "Has"}, name \in ConcNames : CallRead(t, op, name)
        \/ \E op \in ReadOps \ {"Get", "Has"} : CallRead(t, op, "")

NextConc ==
    \/ ThreadCallsWrite
    \/ ThreadCallsRead
    \/ \E t \in Threads : WLock(t)
    \/ \E t \in Threads : Load(t)
    \/ \E t \in Threads : Store(t)
    \/ \E t \in Threads : WUnlock(t)
    \/ \E t \in Threads : RLock(t)
    \/ \E t \in Threads : Read(t)
    \/ \E t \in Threads : RUnlock(t)

SpecConc == InitConc /\ [][NextConc]_vars

(***************************************************************************)
(* SpecFac: threads as in SpecConc, with the call of the factory as a step *)
(* of its own, the calls a running factory makes into the same registry,   *)
(* and readers that block on the mutex until a writer's Unlock wakes them  *)
(***************************************************************************)
ghostVars == <<regNames, unregCalled, raced, counted, dirty, visible>>

\* the thread is inside a call that its running factory made
Nested(t) == outer[t] # NoFrame

\* the thread enters op: a write reaches r.mu.Lock(), a read reaches r.mu.RLock()
Enter(t, op, name, f) ==
    /\ call' = [call EXCEPT ![t] = [op |-> op, name |-> name, fac |-> f]]
    /\ ret' = [ret EXCEPT ![t] = NoResult]
    /\ IF op \in WriteOps
       THEN /\ pc' = [pc EXCEPT ![t] = "lock"]
            /\ mu' = [mu EXCEPT !.waiting = @ \cup {t}]
       ELSE /\ pc' = [pc EXCEPT ![t] = "rlock"]
            /\ mu' = mu
    /\ UNCHANGED <<factories, priority, lastMut, seqVars, snap, ghostVars>>

\* a thread calls an operation of the registry
Calls(t, op, name, f) ==
    /\ pc[t] = "idle"
    /\ Enter(t, op, name, f)
    /\ check' = IF t = Observer /\ ~(op = "Get" /\ name \in check.names)
                THEN NoCheck
                ELSE check
    /\ outer' = outer

\* the factory a Get or Best is running calls an operation of the same registry
FactoryCalls(t, op, name, f) ==
    /\ pc[t] = "factory"
    /\ ~Nested(t)
    /\ Enter(t, op, name, f)
    /\ outer' = [outer EXCEPT ![t] = [call |-> call[t], ret |-> ret[t]]]
    /\ check' = check

\* RLock finds no writer holding or waiting for the mutex and returns
RLockEnter(t) ==
    /\ pc[t] = "rlock"
    /\ CanRLock(mu)
    /\ mu' = [mu EXCEPT !.r = @ \cup {t}]
    /\ pc' = [pc EXCEPT ![t] = "read"]
    /\ UNCHANGED <<factories, priority, lastMut, seqVars, call, ret, snap, ghostVars,
                   outer, check>>

\* RLock finds a writer and blocks until that writer's Unlock
RLockBlock(t) ==
    /\ pc[t] = "rlock"
    /\ ~CanRLock(mu)
    /\ pc' = [pc EXCEPT ![t] = "rwait"]
    /\ UNCHANGED <<factories, priority, lastMut, seqVars, mu, call, ret, snap, ghostVars,
                   outer, check>>

\* mutant: Unlock leaves the readers blocked in RLock asleep
WUnlockNoWake(t) ==
    /\ pc[t] = "unlock"
    /\ mu' = [mu EXCEPT !.w = @ \ {t}]
    /\ pc' = [pc EXCEPT ![t] = IF Nested(t) THEN "factory" ELSE "idle"]
    /\ call' = [call EXCEPT ![t] = outer[t].call]
    /\ ret' = [ret EXCEPT ![t] = outer[t].ret]
    /\ outer' = [outer EXCEPT ![t] = NoFrame]
    /\ UNCHANGED <<factories, priority, lastMut, seqVars, snap, ghostVars, check>>

\* the deferred r.mu.Unlock() admits the readers blocked in RLock, and the call returns
WUnlockWake(t) ==
    LET woken == {u \in Threads : pc[u] = "rwait"}
    IN  /\ pc[t] = "unlock"
        /\ mu' = [mu EXCEPT !.w = @ \ {t}, !.r = @ \cup woken]
        /\ pc' = [u \in Threads |->
                     IF u \in woken THEN "read"
                     ELSE IF u # t THEN pc[u]
                     ELSE IF Nested(t) THEN "factory" ELSE "idle"]
        /\ call' = [call EXCEPT ![t] = outer[t].call]
        /\ ret' = [ret EXCEPT ![t] = outer[t].ret]
        /\ outer' = [outer EXCEPT ![t] = NoFrame]
        /\ UNCHANGED <<factories, priority, lastMut, seqVars, snap, ghostVars, check>>

\* the read operation looks up the map; Get and Best go on to call the factory found.
\* The value to return is kept with the operation it is the result of.
Lookup(t) ==
    /\ pc[t] = "read"
    /\ \E m \in Views(t) : \E r \in ReadBody(call[t], m, priority) :
          /\ pc' = [pc EXCEPT ![t] = IF r.invoked = <<>> THEN "runlock" ELSE "factory"]
          /\ ret' = [ret EXCEPT ![t] =
                        [op |-> call[t].op, ret |-> r.ret, invoked |-> r.invoked]]
    /\ UNCHANGED <<factories, priority, lastMut, seqVars, mu, call, snap, ghostVars,
                   outer, check>>

\* the factory returns
FactoryReturn(t) ==
    /\ pc[t] = "factory"
    /\ pc' = [pc EXCEPT ![t] = "runlock"]
    /\ UNCHANGED <<factories, priority, lastMut, seqVars, mu, call, ret, snap, ghostVars,
                   outer, check>>

\* what the observer's call found registered: the name Has reported, the name BestName returned
Found(c, r) ==
    IF c.op = "Has" /\ r.ret = TRUE THEN [names |-> {c.name}, gone |-> FALSE]
    ELSE IF c.op = "BestName" /\ r.ret # "" THEN [names |-> {r.ret}, gone |-> FALSE]
    ELSE NoCheck

\* the deferred r.mu.RUnlock() runs and the call returns: to the factory that made it,
\* which still holds the read lock of its own caller, or to the thread
RUnlockReturn(t) ==
    /\ pc[t] = "runlock"
    /\ mu' = IF Nested(t) THEN mu ELSE [mu EXCEPT !.r = @ \ {t}]
    /\ pc' = [pc EXCEPT ![t] = IF Nested(t) THEN "factory" ELSE "idle"]
    /\ call' = [call EXCEPT ![t] = outer[t].call]
    /\ ret' = [ret EXCEPT ![t] = outer[t].ret]
    /\ outer' = [outer EXCEPT ![t] = NoFrame]
    /\ check' = IF t = Observer /\ ~Nested(t) THEN Found(call[t], ret[t]) ELSE check
    /\ UNCHANGED <<factories, priority, lastMut, seqVars, snap, ghostVars>>

\* SpecFac: the name the threads use, the priority list, and the calls a factory makes
FacNames == {"vulkan"}
FacPriorities == {<<"vulkan", "software">>}
FacCallbackOps == WriteOps \cup ReadOps

InitFac == Init /\ priority \in FacPriorities

Operations ==
    {[op |-> op, name |-> name, fac |-> f] :
        op \in {"Register"}, name \in FacNames, f \in ConcFactories}
    \cup {[op |-> op, name |-> name, fac |-> 0] :
        op \in {"Unregister", "Get", "Has"}, name \in FacNames}
    \cup {[op |-> op, name |-> "", fac |-> 0] :
        op \in {"Best", "BestName", "Available", "Count"}}

ThreadCalls == \E t \in Threads, c \in Operations : Calls(t, c.op, c.name, c.fac)
FactoryCallsBack ==
    \E t \in Threads, c \in Operations :
        c.op \in FacCallbackOps /\ FactoryCalls(t, c.op, c.name, c.fac)

NextFac ==
    \/ ThreadCalls
    \/ FactoryCallsBack
    \/ \E t \in Threads : WLock(t)
    \/ \E t \in Threads : Load(t)
    \/ \E t \in Threads : Store(t)
    \/ \E t \in Threads : WUnlockWake(t)
    \/ \E t \in Threads : RLockEnter(t)
    \/ \E t \in Threads : RLockBlock(t)
    \/ \E t \in Threads : Lookup(t)
    \/ \E t \in Threads : FactoryReturn(t)
    \/ \E t \in Threads : RUnlockReturn(t)

SpecFac == InitFac /\ [][NextFac]_vars

(***************************************************************************)
(* SpecLive: SpecFac with factories that return and make no call into the  *)
(* registry, under the scheduling the Go runtime provides                  *)
(***************************************************************************)
NextLive ==
    \/ ThreadCalls
    \/ \E t \in Threads : WLock(t)
    \/ \E t \in Threads : Load(t)
    \/ \E t \in Threads : Store(t)
    \/ \E t \in Threads : WUnlockWake(t)
    \/ \E t \in Threads : RLockEnter(t)
    \/ \E t \in Threads : RLockBlock(t)
    \/ \E t \in Threads : Lookup(t)
    \/ \E t \in Threads : FactoryReturn(t)
    \/ \E t \in Threads : RUnlockReturn(t)

\* a step of a thread that is not waiting for the mutex
Runs(t) ==
    \/ Load(t)
    \/ Store(t)
    \/ WUnlockWake(t)
    \/ RLockEnter(t)
    \/ RLockBlock(t)
    \/ Lookup(t)
    \/ FactoryReturn(t)
    \/ RUnlockReturn(t)

\* a runnable thread is scheduled and every factory returns; a thread waiting in Lock
\* gets the mutex if it is free again and again (the starvation mode of sync.Mutex
\* hands the mutex to the longest waiter)
Fairness ==
    \A t \in Threads : WF_pc(Runs(t)) /\ SF_pc(WLock(t))

SpecLive == InitFac /\ [][NextLive]_vars /\ Fairness

(***************************************************************************)
(* What the history says the registry holds                                *)
(***************************************************************************)
\* the names whose most recent completed mutation is a Register, and its factory
Registered == {n \in CallNames : lastMut[n].kind = "register"}
Current(n) == lastMut[n].fac
\* the positions of the priority list whose name is registered, and the earliest
ListedRegistered == {i \in 1..Len(priority) : priority[i] \in Registered}
Earliest == CHOOSE i \in ListedRegistered : \A j \in ListedRegistered : i <= j
\* the elements of a sequence
Elems(s) == {s[i] : i \in 1..Len(s)}

(***************************************************************************)
(* Claims C1..C10                                                          *)
(***************************************************************************)

\* C1: when a name of the priority list is registered, Best() returns the output
\* of the factory registered under the earliest such name of the list.
C1_BestFollowsPriority ==
    (last.op = "Best" /\ ListedRegistered # {}) =>
        /\ last.ret = Output(Current(priority[Earliest]))
        /\ last.invoked = <<Current(priority[Earliest])>>

\* C1 witness: Best() ran with the first listed name unregistered, a later one
\* registered, at least two names registered, and a result that is not zero.
C1_Witness ==
    /\ last.op = "Best"
    /\ ListedRegistered # {}
    /\ Earliest > 1
    /\ Cardinality(Registered) >= 2
    /\ last.ret # Zero

\* C2: when a name of the priority list is registered, BestName() returns the
\* earliest such name of the list and invokes no factory.
C2_BestNameFollowsPriority ==
    (last.op = "BestName" /\ ListedRegistered # {}) =>
        /\ last.ret = priority[Earliest]
        /\ last.invoked = <<>>

\* C2 witness: BestName() skipped an unregistered listed name.
C2_Witness ==
    /\ last.op = "BestName"
    /\ ListedRegistered # {}
    /\ Earliest > 1
    /\ Cardinality(Registered) >= 2

\* C3: on priority [vulkan, dx12, metal, gles, software] the calls
\* Register(software), Register(vulkan), BestName(), Unregister(vulkan), BestName(),
\* Unregister(software), BestName() return "vulkan", then "software", then "".
C3_BackendScenario ==
    /\ scen >= 3 => scenRet[1] = "vulkan"
    /\ scen >= 5 => scenRet[2] = "software"
    /\ scen = 7 => scenRet = <<"vulkan", "software", "">>

\* C3 witness: the seven calls of the scenario have been made in order.
C3_Witness == scen = Len(Scenario) /\ priority = BackendPriority /\ Len(scenRet) = 3

\* C4: after Register(name, f2) replaced f1, Get(name) and a Best() that selects
\* name return f2's output and not f1's, until name is registered again or
\* unregistered; Best() only ever invokes a factory that is registered now.
C4_ReplaceLastWriteWins ==
    /\ \A x \in repl :
          /\ (last.op = "Get" /\ last.name = x.name) =>
                (last.ret = Output(Current(x.name)) /\ last.ret # Output(x.old))
          /\ (/\ last.op = "Best"
              /\ \/ ListedRegistered # {} /\ priority[Earliest] = x.name
                 \/ ListedRegistered = {} /\ Registered = {x.name}) =>
                (last.ret = Output(Current(x.name)) /\ last.ret # Output(x.old))
    /\ (last.op = "Best" /\ Registered # {}) =>
          \E n \in Registered : last.invoked = <<Current(n)>>

\* C4 witness: Get(name) ran after a Register that replaced a different factory
\* under name, with another operation in between.
C4_Witness ==
    \E x \in repl :
        /\ last.op = "Get"
        /\ last.name = x.name
        /\ x.old # Current(x.name)
        /\ pre = factories

\* C5: Get(name) returns the output of the factory registered under name, and the
\* zero value, invoking nothing, when name is not registered.
C5_GetReturnsCurrentOrZero ==
    last.op = "Get" =>
        IF last.name \in Registered
        THEN last.ret = Output(Current(last.name)) /\ last.invoked = <<Current(last.name)>>
        ELSE last.ret = Zero /\ last.invoked = <<>>

\* C5 witness: Get ran on a name that was unregistered while another name is
\* registered with a factory whose output is not the zero value.
C5_Witness ==
    /\ last.op = "Get"
    /\ lastMut[last.name].kind = "unregister"
    /\ \E n \in Registered : Output(Current(n)) # Zero

\* C6: Has(name) is true exactly when the most recent completed mutation on name
\* was a Register, and Has invokes no factory.
C6_HasIffLastMutationIsRegister ==
    /\ \A n \in CallNames :
          /\ HasBody(factories, n).ret = (lastMut[n].kind = "register")
          /\ HasBody(factories, n).invoked = <<>>
    /\ last.op = "Has" =>
          /\ last.ret = (lastMut[last.name].kind = "register")
          /\ last.invoked = <<>>

\* C6 witness: Has(name) returned false for a name that was registered and then
\* unregistered.
C6_Witness ==
    /\ last.op = "Has"
    /\ last.ret = FALSE
    /\ lastMut[last.name].kind = "unregister"

\* C7: with no name registered, Get(n) and Best() return the zero value, Has(n) is
\* false, BestName() is "", Count() is 0 and Available() is empty.
C7_EmptyRegistry ==
    Registered = {} =>
        /\ \A n \in CallNames :
              /\ GetBody(factories, n) = [ret |-> Zero, invoked |-> <<>>]
              /\ HasBody(factories, n).ret = FALSE
        /\ BestBody(factories, priority) = {[ret |-> Zero, invoked |-> <<>>]}
        /\ BestNameBody(factories, priority) = {[ret |-> "", invoked |-> <<>>]}
        /\ CountBody(factories).ret = 0
        /\ AvailableBody(factories) = {[ret |-> <<>>, invoked |-> <<>>]}
        /\ last.op \in {"Get", "Best"} => last.ret = Zero
        /\ last.op = "Has" => last.ret = FALSE
        /\ last.op = "BestName" => last.ret = ""
        /\ last.op = "Count" => last.ret = 0
        /\ last.op = "Available" => last.ret = <<>>

\* C7 witness: Best() ran on a registry with a priority list that Unregister calls
\* had emptied.
C7_Witness ==
    /\ Registered = {}
    /\ \A n \in CallNames : lastMut[n].kind = "unregister"
    /\ Len(priority) > 0
    /\ last.op = "Best"

\* C8: Unregister(name) leaves name unregistered: Has(name) is false and name is
\* not in Available(); when name was not registered, the map and Count() are as
\* before.
C8_Unregister ==
    last.op = "Unregister" =>
        /\ HasBody(factories, last.name).ret = FALSE
        /\ \A r \in AvailableBody(factories) : last.name \notin Elems(r.ret)
        /\ last.name \notin DOMAIN pre =>
              /\ factories = pre
              /\ CountBody(factories) = CountBody(pre)

\* C8 witness: Unregister ran on an absent name while other names are registered.
C8_Witness ==
    /\ last.op = "Unregister"
    /\ last.name \notin DOMAIN pre
    /\ DOMAIN pre # {}

\* C9 as stated: a thread's Count() followed by its Available() agree, whatever
\* the other threads do in between.
C9_CountThenAvailableAlways ==
    (pc[Observer] = "runlock" /\ call[Observer].op = "Available" /\ counted # {}) =>
        Len(ret[Observer].ret) \in counted

\* C9 amended: Count() equals len(Available()) on the same registry state: in
\* every state the two bodies agree, and a thread's Count() followed by its
\* Available() agree when no Register or Unregister took effect in between.
C9_CountEqualsLenAvailable ==
    /\ \A r \in AvailableBody(factories) : Len(r.ret) = CountBody(factories).ret
    /\ (/\ pc[Observer] = "runlock"
        /\ call[Observer].op = "Available"
        /\ counted # {}
        /\ ~dirty) =>
          Len(ret[Observer].ret) \in counted

\* C9 witness: the observer's Available() follows its Count() on a non-empty
\* registry with no write in between, while another thread waits to write.
C9_Witness ==
    /\ pc[Observer] = "runlock"
    /\ call[Observer].op = "Available"
    /\ counted # {}
    /\ ~dirty
    /\ Len(ret[Observer].ret) >= 1
    /\ \E t \in Threads \ {Observer} : pc[t] = "lock"

\* C10: when only Register calls have mutated the registry and all calls have
\* returned, every registered name is present: Count() is the number of distinct
\* names registered and Has is true for each.
C10_ConcurrentRegister ==
    ((\A t \in Threads : pc[t] = "idle") /\ ~unregCalled) =>
        /\ DOMAIN factories = regNames
        /\ CountBody(factories).ret = Cardinality(regNames)
        /\ \A n \in regNames : HasBody(factories, n).ret

\* C10 witness: two Register calls on distinct names overlapped and both returned.
C10_Witness ==
    /\ \A t \in Threads : pc[t] = "idle"
    /\ ~unregCalled
    /\ raced
    /\ Cardinality(regNames) >= 2

(***************************************************************************)
(* Claims C11..C20                                                         *)
(***************************************************************************)
\* the map the completed mutations amount to
HistMap == [n \in Registered |-> Current(n)]
\* the threads inside a writer's and inside a reader's critical section
WriterCS == {t \in Threads : pc[t] \in {"load", "store", "unlock"}}
ReaderCS == {t \in Threads : pc[t] \in {"read", "runlock"}}

\* C11: the step at which a read operation takes effect returns what its body
\* yields on the map of all mutations completed so far: the state before or
\* after any racing Register/Unregister, never a part of one.
C11_ReadsAtomic ==
    [][\A t \in Threads :
          (pc[t] = "read" /\ pc'[t] = "runlock") =>
              ret'[t] \in ReadBody(call[t], HistMap, priority)]_vars

\* C11 witness: a read operation has taken effect on a non-empty registry while
\* a Register or Unregister waits for the mutex.
C11_Witness ==
    \E t \in Threads :
        /\ pc[t] = "runlock"
        /\ call[t].op = "Available"
        /\ Len(ret[t].ret) >= 1
        /\ \E u \in Threads \ {t} : pc[u] = "lock"

\* C12: at most one thread is inside a Register/Unregister critical section, and
\* while one is, no thread is inside the critical section of a read operation.
C12_LockDiscipline ==
    /\ Cardinality(WriterCS) <= 1
    /\ WriterCS # {} => ReaderCS = {}
    /\ WriterCS = mu.w
    /\ ReaderCS = mu.r

\* C12 witness: two read operations are inside their critical sections at once.
C12_Witness == Cardinality(ReaderCS) >= 2 /\ WriterCS = {}

\* C13: no registry operation fails, whatever name and factory value Register
\* was given (a nil factory and the empty name included): every operation
\* returns, and absence is signalled by the zero value, false, an empty
\* collection or the empty string.
C13_NoOperationFails == ~Panicked(last)

\* C14: the priority sequence is set at construction and never changes
\* afterwards, also when the caller passed an existing slice to WithPriority
\* and modifies that slice later.
C14_PriorityNeverChanges == [][priority' = priority]_vars

\* C15: when some name is registered and no name of the priority sequence is
\* (an empty sequence included), Best returns the output of a currently
\* registered factory, which it invoked, and BestName returns a currently
\* registered name.
C15_FallbackReturnsRegistered ==
    (Registered # {} /\ ListedRegistered = {}) =>
        /\ last.op = "Best" =>
               \E n \in Registered :
                   last.invoked = <<Current(n)>> /\ last.ret = Output(Current(n))
        /\ last.op = "BestName" => last.ret \in Registered

C15_Witness ==
    /\ last.op = "Best"
    /\ Cardinality(Registered) >= 2
    /\ Len(priority) > 0
    /\ ListedRegistered = {}
    /\ last.ret # Zero

\* C16: with exactly one name registered, Best returns the output of that
\* name's factory and BestName returns that name, whatever the priority list.
C16_SingleEntry ==
    \A n \in CallNames :
        Registered = {n} =>
            /\ last.op = "Best" =>
                   last.invoked = <<Current(n)>> /\ last.ret = Output(Current(n))
            /\ last.op = "BestName" => last.ret = n

C16_Witness ==
    /\ last.op = "BestName"
    /\ Cardinality(Registered) = 1
    /\ Len(priority) > 0
    /\ ListedRegistered = {}
    /\ last.ret \in Registered
    /\ \E n \in CallNames : lastMut[n].kind = "unregister"

\* the operation last completed, without its result
lastCall == <<last.op, last.name, last.fac>>

\* C17: names outside the priority list are ordered by registration: when a
\* second name has just been registered after a first one and neither is
\* listed, Best and BestName select the first one.
C17_FallbackByRegistrationOrder ==
    [][\A a \in CallNames :
          (/\ last.op = "Register"
           /\ DOMAIN pre = {a}
           /\ last.name # a
           /\ ListedRegistered = {}) =>
              /\ last'.op = "BestName" => last'.ret = a
              /\ last'.op = "Best" => last'.invoked = <<factories[a]>>]_lastCall

\* C18: Best returns the output of the factory registered under the name
\* that BestName returns in the same registry state.
C18_BestMatchesBestName ==
    [][(last.op = "BestName" /\ last'.op = "Best" /\ Registered # {}) =>
          last'.invoked = <<Current(last.ret)>>]_lastCall

\* C19: Available returns exactly the currently registered names, each once:
\* no unregistered or never-registered name, and a replaced name once.
C19_AvailableExact ==
    last.op = "Available" =>
        /\ Elems(last.ret) = Registered
        /\ Len(last.ret) = Cardinality(Registered)

C19_Witness ==
    /\ last.op = "Available"
    /\ repl # {}
    /\ \E n \in CallNames : lastMut[n].kind = "unregister"
    /\ Len(last.ret) = 2

\* C20: a read the observer starts after a Register(name, f) has returned, with
\* no Register or Unregister on name taking effect since, observes f:
\* Has(name) is true, Get(name) returns f's output, and Best does not pass
\* over name: it returns f's output when name is the first listed name that
\* is registered, and some registered factory's output otherwise.
C20_CompletedRegisterVisible ==
    LET c == call[Observer]
        r == ret[Observer]
    IN  pc[Observer] = "runlock" =>
            /\ (c.op = "Get" /\ c.name \in visible) => r = Invoke(Current(c.name))
            /\ (c.op = "Has" /\ c.name \in visible) => r.ret = TRUE
            /\ (c.op = "Best" /\ visible # {}) =>
                   /\ \E n \in Registered : r = Invoke(Current(n))
                   /\ \A n \in visible :
                          (ListedRegistered # {} /\ priority[Earliest] = n) =>
                              r = Invoke(Current(n))

C20_Witness ==
    /\ pc[Observer] = "runlock"
    /\ call[Observer].op = "Get"
    /\ call[Observer].name \in visible
    /\ ret[Observer].ret # Zero
    /\ \E u \in Threads \ {Observer} :
           /\ pc[u] = "lock"
           /\ call[u].op = "Unregister"
           /\ call[u].name = call[Observer].name

(***************************************************************************)
(* Claims C21..C30                                                         *)
(***************************************************************************)
\* C25: lookups are not cached: Get on a registered name invokes that name's
\* current factory exactly once, Best on a non-empty registry invokes exactly
\* one registered factory exactly once, Has, BestName, Available and Count
\* invoke nothing, and the map only ever holds the factories last registered.
C25_NoCaching ==
    /\ (last.op = "Get" /\ last.name \in Registered) =>
           last.invoked = <<Current(last.name)>>
    /\ (last.op = "Best" /\ Registered # {}) =>
           /\ Len(last.invoked) = 1
           /\ \E n \in Registered : last.invoked[1] = Current(n)
    /\ last.op \in {"Has", "BestName", "Available", "Count"} => last.invoked = <<>>
    /\ factories = HistMap

C25_Witness ==
    /\ last.op = "Get"
    /\ last.name \in Registered
    /\ \E x \in repl : x.name = last.name
    /\ last.invoked = <<Current(last.name)>>
    /\ last.ret # Zero

\* C27: Register and Unregister change only the entry of their name; the
\* number of entries grows by one when Register adds an absent name, stays
\* when it replaces one, shrinks by one when Unregister removes a present
\* name, stays when the name was absent, and is never negative.
C27_WritesTouchOneEntry ==
    LET before == Cardinality(DOMAIN pre)
        after == CountBody(factories).ret
        others == (DOMAIN pre) \ {last.name}
    IN  /\ last.op \in {"Register", "Unregister"} =>
               /\ (DOMAIN factories) \ {last.name} = others
               /\ \A n \in others : factories[n] = pre[n]
        /\ last.op = "Register" =>
               /\ last.name \in DOMAIN factories
               /\ factories[last.name] = last.fac
               /\ after = IF last.name \in DOMAIN pre THEN before ELSE before + 1
        /\ last.op = "Unregister" =>
               /\ last.name \notin DOMAIN factories
               /\ after = IF last.name \in DOMAIN pre THEN before - 1 ELSE before
        /\ after >= 0

C27_Witness ==
    /\ last.op = "Unregister"
    /\ last.name \in DOMAIN pre
    /\ Cardinality(DOMAIN pre) >= 2

\* C28: BestName returns the empty string exactly when no factory is
\* registered, the empty string being a name like any other.
C28_EmptyNameIffEmptyRegistry ==
    last.op = "BestName" => (last.ret = "" <=> CountBody(factories).ret = 0)

\* the threads whose Get or Best is running a factory (which may itself be in a nested call)
InFactory == {t \in Threads : pc[t] = "factory" \/ Nested(t)}

\* C21 as stated: while a factory called by Get or Best runs, no read of
\* another thread gets past RLock.
C21_ReadersHeldUp ==
    [][\A t \in InFactory : \A u \in Threads \ {t} :
          pc[u] = "rlock" => pc'[u] # "read"]_vars

\* C21 amended: a running factory does not hold up the reads of other threads;
\* a read blocks in RLock only when a writer holds or waits for the mutex,
\* and a blocked read always has such a writer to wake it.
C21_ReadersHeldUpOnlyBehindWriter ==
    [][/\ \A u \in Threads :
             (pc[u] = "rlock" /\ pc'[u] = "rwait") => (mu.w \cup mu.waiting) # {}
       /\ \A u \in Threads :
             (pc[u] = "rlock" /\ (mu.w \cup mu.waiting) = {}) => pc'[u] \in {"rlock", "read"}
       /\ \A u \in Threads :
             pc'[u] = "rwait" => (mu'.w \cup mu'.waiting) # {}]_vars

C21_Witness ==
    \E t, u \in Threads :
        /\ t # u
        /\ pc[t] = "factory"
        /\ pc[u] = "factory"
        /\ ~Nested(t)
        /\ ~Nested(u)

\* C22: while a factory called by Get or Best has not returned, its thread
\* holds the read lock and no Register or Unregister is between Lock and
\* Unlock: none takes effect and none returns.
C22_FactoryRunsUnderReadLock ==
    \A t \in InFactory :
        /\ t \in mu.r
        /\ mu.w = {}
        /\ \A u \in Threads : pc[u] \notin {"load", "store", "unlock"}

C22_Witness ==
    \E t \in Threads :
        /\ pc[t] = "factory"
        /\ ~Nested(t)
        /\ \E u \in Threads \ {t} : pc[u] = "lock" /\ call[u].op = "Unregister"

\* C23: a Register or Unregister that a running factory calls on the same
\* registry never gets the write lock: the nested call stays at Lock and the
\* outer Get or Best never returns.
C23_NestedWriteDeadlocks ==
    [][\A t \in Threads :
          (Nested(t) /\ pc[t] = "lock") =>
              (pc'[t] = "lock" /\ outer'[t] = outer[t] /\ t \in mu'.r)]_vars

C23_Witness ==
    \E t \in Threads :
        /\ Nested(t)
        /\ pc[t] = "lock"
        /\ call[t].op = "Register"
        /\ outer[t].call.op = "Get"

\* C26: the read operations leave the registered names, their factories and
\* the priority sequence unchanged: no step of a read changes them, and
\* nothing changes them while a read is between RLock and RUnlock, however
\* long its factory takes.
C26_ReadsLeaveStateUnchanged ==
    [][((\E t \in Threads :
            /\ pc'[t] # pc[t]
            /\ call[t].op \in ReadOps \/ call'[t].op \in ReadOps)
        \/ mu.r # {}) =>
           (factories' = factories /\ priority' = priority /\ lastMut' = lastMut)]_vars

C26_Witness ==
    \E t \in Threads :
        /\ pc[t] = "runlock"
        /\ call[t].op = "Best"
        /\ ret[t].invoked # <<>>
        /\ \E u \in Threads \ {t} : pc[u] = "lock"
        /\ DOMAIN factories # {}

\* C29: a read that a running factory calls on the same registry while
\* another thread's Register or Unregister waits for the write lock blocks
\* behind that writer, the writer waits for the outer read lock, and none of
\* the calls returns; with no writer waiting the nested read does not block.
C29_NestedReadDeadlocks ==
    [][\A t \in Threads :
          /\ (Nested(t) /\ pc[t] = "rlock" /\ mu.waiting # {}) => pc'[t] # "read"
          /\ (Nested(t) /\ pc[t] = "rlock" /\ mu.waiting = {}) => pc'[t] # "rwait"
          /\ (Nested(t) /\ pc[t] = "rwait") =>
                 /\ pc'[t] = "rwait"
                 /\ outer'[t] = outer[t]
                 /\ mu.waiting # {}
                 /\ \A u \in mu.waiting : pc'[u] = "lock"]_vars

C29_Witness ==
    \E t \in Threads :
        /\ Nested(t)
        /\ pc[t] = "rwait"
        /\ \E u \in Threads \ {t} : pc[u] = "lock" /\ ~Nested(u)

\* C30: Has(name), or BestName returning name, followed by Get(name) in the
\* same thread is not atomic: the Get can return the zero value without
\* invoking a factory, and it does so only when an Unregister(name) took
\* effect after the first call.
C30_CheckThenUse ==
    LET c == call[Observer]
        r == ret[Observer]
    IN  (/\ pc[Observer] = "runlock"
         /\ ~Nested(Observer)
         /\ c.op = "Get"
         /\ c.name \in check.names) =>
            /\ r.invoked = <<>> => (r.ret = Zero /\ check.gone)
            /\ ~check.gone =>
                   /\ r.invoked = <<Current(c.name)>>
                   /\ r.ret = Output(Current(c.name))

C30_Witness ==
    /\ pc[Observer] = "runlock"
    /\ ~Nested(Observer)
    /\ call[Observer].op = "Get"
    /\ call[Observer].name \in check.names
    /\ ret[Observer].invoked = <<>>
    /\ check.gone

\* C24: with factories that return and do not call the registry, every call
\* of every operation returns: no thread stays in a call forever, whether it
\* waits in Lock behind readers and writers or in RLock behind a writer.
C24_EveryCallReturns ==
    \A t \in Threads : (pc[t] # "idle") ~> (pc[t] = "idle")

C24_Witness ==
    \E t, u \in Threads :
        /\ pc[t] = "rwait"
        /\ call[t].op = "Best"
        /\ pc[u] = "store"
        /\ call[u].op = "Register"

====
